---- MODULE Spec2Model ----
(***************************************************************************)
(* Keyword Search Volume Tool (src/app.py): one fetch invocation.          *)
(*                                                                         *)
(* main() calls process_keywords_in_batches, which asks the API for the    *)
(* campaign's keyword IDs (get_keyword_ids), then requests the data of the *)
(* resolved IDs in batches (get_keyword_data_batch), and main() turns the  *)
(* accumulated items into one table (process_results).                     *)
(*                                                                         *)
(* Strings are sequences of one-character strings, JSON values are tagged  *)
(* records, Python's None / exceptions are explicit outcomes.              *)
(***************************************************************************)
EXTENDS Integers, Sequences, FiniteSets, TLC

\* ---------------------------------------------------------------- bounds

\* Longest list of requested keywords (rows of the uploaded CSV).
MaxKeywords == 2

\* Largest batch_size process_keywords_in_batches is called with.
MaxBatchSize == 2

\* Longest JSON list the keyword-ID lookup answers with.
MaxLookupRows == 2

\* Longest list of items handed to process_results as a pure function.
MaxItems == 2

\* ------------------------------------------------------------- utilities

Range(s) == {s[i] : i \in DOMAIN s}

SeqsUpTo(S, n) == UNION {[1..k -> S] : k \in 0..n}

Min(a, b) == IF a <= b THEN a ELSE b

SetMax(S) == CHOOSE x \in S : \A y \in S : y <= x

\* s[a+1 .. b] in Python's slice notation s[a:b]
Slice(s, a, b) == [i \in 1..(b - a) |-> s[a + i]]

RECURSIVE Concat(_)
Concat(ss) == IF ss = <<>> THEN <<>> ELSE Head(ss) \o Concat(Tail(ss))

\* --------------------------------------------------------------- strings

LowerChar(c) ==
    CASE c = "A" -> "a"
      [] c = "B" -> "b"
      [] c = "S" -> "s"
      [] c = "E" -> "e"
      [] c = "O" -> "o"
      [] OTHER -> c

\* str.lower()
Lower(s) == [i \in DOMAIN s |-> LowerChar(s[i])]

Digits == {"0", "1", "2", "3", "4", "5", "6", "7", "8", "9"}

DigitVal(c) ==
    CASE c = "0" -> 0 [] c = "1" -> 1 [] c = "2" -> 2 [] c = "3" -> 3
      [] c = "4" -> 4 [] c = "5" -> 5 [] c = "6" -> 6 [] c = "7" -> 7
      [] c = "8" -> 8 [] c = "9" -> 9

RECURSIVE DigitsVal(_)
DigitsVal(s) ==
    IF s = <<>> THEN 0 ELSE 10 * DigitsVal(SubSeq(s, 1, Len(s) - 1)) + DigitVal(s[Len(s)])

IsDigits(s) == s # <<>> /\ \A i \in DOMAIN s : s[i] \in Digits

\* ----------------------------------------------------------- JSON values

JMissing == [t |-> "missing", n |-> 0, d |-> 1, s |-> <<>>]
JNull == [t |-> "null", n |-> 0, d |-> 1, s |-> <<>>]
JInt(n) == [t |-> "int", n |-> n, d |-> 1, s |-> <<>>]
\* the float n/d
JFloat(n, d) == [t |-> "float", n |-> n, d |-> d, s |-> <<>>]
\* a float too large for a double's range: json parses 1e999 to inf
JInf == [t |-> "inf", n |-> 0, d |-> 1, s |-> <<>>]
JStr(s) == [t |-> "str", n |-> 0, d |-> 1, s |-> s]
JList == [t |-> "list", n |-> 0, d |-> 1, s |-> <<>>]

\* dict.get(key): None for an absent key and for a null value alike
IsNone(v) == v.t \in {"missing", "null"}

\* dict.get(key, default)
GetOr(v, default) == IF v.t = "missing" THEN default ELSE v

\* int(x) of Python: "ok" with the integer, "pass" for the TypeError and
\* ValueError the inner handler of process_results swallows, "raise" for the
\* OverflowError of int(inf), which no handler of process_results catches.
ParseIntStr(s) ==
    IF IsDigits(s) THEN [r |-> "ok", v |-> DigitsVal(s)]
    ELSE IF Len(s) >= 2 /\ s[1] = "-" /\ IsDigits(Tail(s))
         THEN [r |-> "ok", v |-> 0 - DigitsVal(Tail(s))]
    ELSE IF Len(s) >= 2 /\ s[1] = "+" /\ IsDigits(Tail(s))
         THEN [r |-> "ok", v |-> DigitsVal(Tail(s))]
    ELSE [r |-> "pass", v |-> 0]

\* truncation toward zero
Trunc(n, d) == IF n >= 0 THEN n \div d ELSE 0 - ((0 - n) \div d)

PyInt(x) ==
    CASE x.t = "int" -> [r |-> "ok", v |-> x.n]
      [] x.t = "float" -> [r |-> "ok", v |-> Trunc(x.n, x.d)]
      [] x.t = "str" -> ParseIntStr(x.s)
      [] x.t = "inf" -> [r |-> "raise", v |-> 0]
      [] OTHER -> [r |-> "pass", v |-> 0]

\* ------------------------------------------------------------ API items

\* search_data of an item: a JSON object with the three volume fields, or
\* null, or absent.
SearchData(t, ms, sv, v) ==
    [t |-> t, monthly_searches |-> ms, search_volume |-> sv, volume |-> v]

NoSearchData == SearchData("missing", JMissing, JMissing, JMissing)

\* One element of a JSON list the API answers with. dict is FALSE for an
\* element that is no JSON object; id is 0 for an absent, null or zero id.
Item(kw, id, sd, ms, sv, v) ==
    [dict |-> TRUE, keyword |-> kw, id |-> id, search_data |-> sd,
     monthly_searches |-> ms, search_volume |-> sv, volume |-> v]

NonDictItem ==
    [dict |-> FALSE, keyword |-> JMissing, id |-> 0, search_data |-> NoSearchData,
     monthly_searches |-> JMissing, search_volume |-> JMissing, volume |-> JMissing]

\* An HTTP exchange's end: a status and, for a 2xx answer, the parsed body.
\* status "network" is a transport failure (requests raises), "http_error"
\* any other 4xx/5xx status (raise_for_status raises).
JsonList(rows) == [t |-> "list", rows |-> rows]
JsonObject == [t |-> "object", rows |-> <<>>]
Response(status, json) == [status |-> status, json |-> json]
NoResponse == Response("none", JsonObject)

\* -------------------------------------------------------- get_keyword_ids

EmptyMap == [k \in {} |-> 0]

MapPut(m, key, val) == [k \in DOMAIN m \cup {key} |-> IF k = key THEN val ELSE m[k]]

\* MatchKey without the lower-casing: an exact comparison.
MatchKeyExact(s) == s

\* The key both matching steps compare by.
MatchKey(s) == Lower(s)

\* Truthiness of item.get('id').
IdUsable(id) == id # 0

\* Lines 40-47: keyword text (lower-cased) -> keyword id; a later item
\* overwrites an earlier one. raised: item.get('keyword', '') is no string, and
\* .lower() raises AttributeError, which get_keyword_ids does not catch.
RECURSIVE BuildKeywordMap(_, _)
BuildKeywordMap(rows, acc) ==
    IF rows = <<>> \/ acc.raised THEN acc
    ELSE LET item == Head(rows) IN
         IF ~item.dict THEN BuildKeywordMap(Tail(rows), acc)
         ELSE LET kw == GetOr(item.keyword, JStr(<<>>)) IN
              IF kw.t # "str" THEN [raised |-> TRUE, map |-> acc.map]
              ELSE LET keyword == MatchKey(kw.s) IN
                   IF keyword # <<>> /\ IdUsable(item.id)
                   THEN BuildKeywordMap(Tail(rows),
                            [raised |-> FALSE, map |-> MapPut(acc.map, keyword, item.id)])
                   ELSE BuildKeywordMap(Tail(rows), acc)

\* LookupIds without the test of line 53: an unresolved keyword adds a
\* null id.
RECURSIVE LookupIdsUnfiltered(_, _)
LookupIdsUnfiltered(keywords, keyword_map) ==
    IF keywords = <<>> THEN <<>>
    ELSE LET key == MatchKey(Head(keywords)) IN
         (IF key \in DOMAIN keyword_map THEN <<keyword_map[key]>> ELSE <<0>>)
             \o LookupIdsUnfiltered(Tail(keywords), keyword_map)

\* Lines 50-54: the ids of the target keywords, in the keywords' order.
RECURSIVE LookupIds(_, _)
LookupIds(keywords, keyword_map) ==
    IF keywords = <<>> THEN <<>>
    ELSE LET key == MatchKey(Head(keywords)) IN
         (IF key \in DOMAIN keyword_map THEN <<keyword_map[key]>> ELSE <<>>)
             \o LookupIds(Tail(keywords), keyword_map)

\* What a function call ends in: a value, None, or an uncaught exception.
Returned(ids) == [outcome |-> "return", none |-> FALSE, ids |-> ids, error |-> "none"]
ReturnedNone(error) == [outcome |-> "return", none |-> TRUE, ids |-> <<>>, error |-> error]
Raised == [outcome |-> "raise", none |-> TRUE, ids |-> <<>>, error |-> "none"]

\* get_keyword_ids, from the response of its GET on.
get_keyword_ids(resp, keywords) ==
    CASE resp.status = "401" -> ReturnedNone("auth")
      [] resp.status = "404" -> ReturnedNone("not_found")
      [] resp.status \in {"http_error", "network"} -> ReturnedNone("request")
      [] OTHER ->
           LET built == IF resp.json.t = "list"
                        THEN BuildKeywordMap(resp.json.rows, [raised |-> FALSE, map |-> EmptyMap])
                        ELSE [raised |-> FALSE, map |-> EmptyMap]
           IN IF built.raised THEN Raised ELSE Returned(LookupIds(keywords, built.map))

\* ------------------------------------------------- get_keyword_data_batch

\* get_keyword_data_batch, from the response of its GET on: the parsed body,
\* or None with the error it reports.
get_keyword_data_batch(resp) ==
    CASE resp.status = "401" -> [none |-> TRUE, data |-> JsonObject, error |-> "auth"]
      [] resp.status = "404" -> [none |-> TRUE, data |-> JsonObject, error |-> "not_found"]
      [] resp.status \in {"http_error", "network"} ->
           [none |-> TRUE, data |-> JsonObject, error |-> "request"]
      [] OTHER -> [none |-> FALSE, data |-> resp.json, error |-> "none"]

\* -------------------------------------------------------- process_results

\* results_dict is a dict in insertion order: a sequence of entries, one per key.
DictHas(d, key) == \E i \in DOMAIN d : d[i].key = key

DictIndex(d, key) == CHOOSE i \in DOMAIN d : d[i].key = key

\* DictPut of a list of records instead of a dict: every put appends.
DictPutAppend(d, key, entry) == Append(d, entry)

\* d[key] = entry: a new key is appended, a known key keeps its place
DictPut(d, key, entry) ==
    IF DictHas(d, key)
    THEN [d EXCEPT ![DictIndex(d, key)] = entry]
    ELSE Append(d, entry)

\* InitialEntry with -1 for "not known yet".
InitialEntryUnknown(keyword) ==
    [key |-> MatchKey(keyword), keyword |-> keyword, search_volume |-> 0 - 1]

\* Line 149: the entry a requested keyword starts with.
InitialEntry(keyword) ==
    [key |-> MatchKey(keyword), keyword |-> keyword, search_volume |-> 0]

\* Line 149: the dict comprehension over original_keywords.
RECURSIVE InitResultsDict(_, _)
InitResultsDict(original_keywords, d) ==
    IF original_keywords = <<>> THEN d
    ELSE LET keyword == Head(original_keywords) IN
         InitResultsDict(Tail(original_keywords),
             DictPut(d, MatchKey(keyword), InitialEntry(keyword)))

\* Lines 157-166: the probe of search_data.
ProbeSearchData(item) ==
    LET search_data == IF item.search_data.t = "missing"
                       THEN SearchData("dict", JMissing, JMissing, JMissing)
                       ELSE item.search_data
    IN IF search_data.t # "dict" THEN JNull
       ELSE IF ~IsNone(search_data.monthly_searches) THEN search_data.monthly_searches
       ELSE IF ~IsNone(search_data.search_volume) THEN search_data.search_volume
       ELSE search_data.volume

\* Lines 169-174: the direct fields, tried when search_data gave None.
ProbeItem(item) ==
    IF ~IsNone(item.monthly_searches) THEN item.monthly_searches
    ELSE IF ~IsNone(item.search_volume) THEN item.search_volume
    ELSE item.volume

\* ProbeVolume with the direct fields tried before search_data.
ProbeVolumeItemFirst(item) ==
    IF ~IsNone(ProbeItem(item)) THEN ProbeItem(item) ELSE ProbeSearchData(item)

\* Lines 157-174: the value int() is applied to; None when there is none.
ProbeVolume(item) ==
    IF ~IsNone(ProbeSearchData(item)) THEN ProbeSearchData(item) ELSE ProbeItem(item)

\* Line 180: the volume stored for a converted value.
StoredVolume(n) == n

\* Lines 152-190, one turn of the loop. raised: an exception that is neither
\* TypeError nor ValueError leaves process_results (item.get on a non-dict,
\* .lower() on a non-string, int() of an infinite float).
ProcessItem(d, item) ==
    IF ~item.dict THEN [raised |-> TRUE, dict |-> d]
    ELSE LET kw == GetOr(item.keyword, JStr(<<>>)) IN
         IF kw.t # "str" THEN [raised |-> TRUE, dict |-> d]
         ELSE LET keyword == MatchKey(kw.s)
                  search_volume == ProbeVolume(item)
              IN IF ~DictHas(d, keyword) \/ IsNone(search_volume)
                 THEN [raised |-> FALSE, dict |-> d]
                 ELSE LET n == PyInt(search_volume)
                          i == DictIndex(d, keyword)
                      IN CASE n.r = "ok" ->
                                [raised |-> FALSE,
                                 dict |-> [d EXCEPT ![i].search_volume = StoredVolume(n.v)]]
                           [] n.r = "pass" -> [raised |-> FALSE, dict |-> d]
                           [] OTHER -> [raised |-> TRUE, dict |-> d]

RECURSIVE ProcessItems(_, _)
ProcessItems(data, acc) ==
    IF data = <<>> \/ acc.raised THEN acc
    ELSE ProcessItems(Tail(data), ProcessItem(acc.dict, Head(data)))

\* Line 192: list(results_dict.values())
DictValues(d) ==
    [i \in DOMAIN d |-> [keyword |-> d[i].keyword, search_volume |-> d[i].search_volume]]

\* process_results: the records, or raised.
process_results(data, original_keywords) ==
    LET done == ProcessItems(data,
                    [raised |-> FALSE, dict |-> InitResultsDict(original_keywords, <<>>)])
    IN [raised |-> done.raised,
        rows |-> IF done.raised THEN <<>> ELSE DictValues(done.dict)]

\* ------------------------------------------------------ input universes

kwSeo == <<"s", "e", "o">>
kwSEO == <<"S", "E", "O">>
kwAb == <<"a", "b">>

\* Keywords of the CSV, stripped and non-empty (main, lines 213-214).
ReqKeywords == {kwSeo, kwSEO, kwAb}

LookupItem(kw, id) == Item(kw, id, NoSearchData, JMissing, JMissing, JMissing)

Failures == {"401", "404", "http_error", "network"}

\* Answers of the keyword-ID lookup in a whole invocation: a failure, a body
\* that is no list, and lists that resolve nothing, one keyword in another
\* case, two keywords, or hold an item whose keyword is null.
LookupRowLists ==
    { <<>>,
      <<LookupItem(JStr(kwSEO), 2)>>,
      <<LookupItem(JStr(kwSeo), 1), LookupItem(JStr(kwAb), 2)>>,
      <<LookupItem(JNull, 1)>> }

LookupResponses ==
    {Response(st, JsonObject) : st \in Failures \cup {"ok"}}
        \cup {Response("ok", JsonList(rows)) : rows \in LookupRowLists}

VolumeItem(kw, sd, ms, sv, v) == Item(JStr(kw), 0, sd, ms, sv, v)

SdOnly(kw, ms, sv, v) ==
    VolumeItem(kw, SearchData("dict", ms, sv, v), JMissing, JMissing, JMissing)

\* Answers of a data batch in a whole invocation.
rowSEO5 == SdOnly(kwSEO, JInt(5), JMissing, JMissing)
rowAb7 == SdOnly(kwAb, JInt(7), JMissing, JMissing)

BatchRowLists == {<<>>, <<rowSEO5>>, <<rowAb7, rowSEO5>>}

BatchResponses ==
    {Response(st, JsonObject) : st \in Failures \cup {"ok"}}
        \cup {Response("ok", JsonList(rows)) : rows \in BatchRowLists}

\* ----------------------------------------------------------------- state

VARIABLES
    keywords,       \* main: the requested keywords
    batch_size,     \* process_keywords_in_batches: batch_size
    pc,             \* where the invocation stands
    response,       \* the answer of the request that returned last
    keyword_ids,    \* process_keywords_in_batches: keyword_ids (none: None)
    total_batches,  \* process_keywords_in_batches: total_batches
    batch_num,      \* process_keywords_in_batches: batch_num
    all_results,    \* process_keywords_in_batches: all_results
    log,            \* every GET issued, in order, with its answer's status
    in_flight,      \* indices of log whose GET has not returned
    errors,         \* what st.error reported, in order
    results         \* main: results (table: process_results returned)

vars ==
    <<keywords, batch_size, pc, response, keyword_ids, total_batches, batch_num,
      all_results, log, in_flight, errors, results>>

NoIds == [none |-> TRUE, ids |-> <<>>]
NoTable == [table |-> FALSE, rows |-> <<>>]

\* A GET: the ids it asks for, and once it returned its status, whether the
\* body was a JSON list, and the list's length.
Request(kind, ids) ==
    [kind |-> kind, ids |-> ids, status |-> "pending", list |-> FALSE, rows |-> 0]

Answered(req, resp) ==
    [req EXCEPT !.status = resp.status,
                !.list = (resp.status = "ok" /\ resp.json.t = "list"),
                !.rows = Len(resp.json.rows)]

Report(errs, error) == IF error = "none" THEN errs ELSE Append(errs, error)

Init ==
    /\ keywords \in SeqsUpTo(ReqKeywords, MaxKeywords)
    /\ batch_size = 1
    /\ pc = "idle"
    /\ response = NoResponse
    /\ keyword_ids = NoIds
    /\ total_batches = 0
    /\ batch_num = 0
    /\ all_results = <<>>
    /\ log = <<>>
    /\ in_flight = {}
    /\ errors = <<>>
    /\ results = NoTable

\* ------------------------------------------- process_keywords_in_batches

\* Line 116: not keyword_ids
NotKeywordIds(kid) == kid.none \/ kid.ids = <<>>

\* Line 122
TotalBatches(n, bs) == (n + bs - 1) \div bs

\* Lines 125-127
CurrentBatch(ids, bn, bs) == Slice(ids, bn * bs, Min((bn + 1) * bs, Len(ids)))

\* Lines 136-137: all_results after a batch
Extend(acc, batch) ==
    IF ~batch.none /\ batch.data.t = "list" /\ batch.data.rows # <<>>
    THEN acc \o batch.data.rows
    ELSE acc

\* NextBatchNum of a loop that asks again for a batch that failed.
NextBatchNumRetry(bn, batch) == IF batch.none THEN bn ELSE bn + 1

\* Line 124: the for loop's next index, whatever the batch returned
NextBatchNum(bn, batch) == bn + 1

\* LoopContinues of a pagination loop: a list shorter than batch_size ends it.
LoopContinuesUntilShort(bn, total, batch) ==
    bn < total /\ ~(~batch.none /\ batch.data.t = "list" /\ Len(batch.data.rows) < batch_size)

\* Line 124: whether the for loop takes another turn
LoopContinues(bn, total, batch) == bn < total

\* main, lines 226-238, into process_keywords_in_batches (lines 107-114) and
\* get_keyword_ids up to its GET (line 28).
Click ==
    /\ pc = "idle"
    /\ \E bs \in 1..MaxBatchSize : batch_size' = bs
    /\ log' = <<Request("ids", <<>>)>>
    /\ in_flight' = in_flight \cup {1}
    /\ pc' = "lookup"
    /\ UNCHANGED <<keywords, response, keyword_ids, total_batches, batch_num,
                   all_results, errors, results>>

\* The lookup's GET returns: get_keyword_ids lines 29-59, then
\* process_keywords_in_batches lines 116-122. An exception get_keyword_ids
\* lets through ends in main's handler (lines 282-283).
LookupResponse ==
    /\ pc = "lookup"
    /\ \E resp \in LookupResponses :
         LET r == get_keyword_ids(resp, keywords)
             kid == [none |-> r.none, ids |-> r.ids]
         IN /\ response' = resp
            /\ log' = [log EXCEPT ![Len(log)] = Answered(@, resp)]
            /\ in_flight' = in_flight \ {Len(log)}
            /\ IF r.outcome = "raise"
               THEN /\ pc' = "crashed"
                    /\ errors' = Append(errors, "exception")
                    /\ UNCHANGED <<keyword_ids, total_batches, batch_num, all_results>>
               ELSE /\ errors' = Report(errors, r.error)
                    /\ keyword_ids' = kid
                    /\ batch_num' = 0
                    /\ IF NotKeywordIds(kid)
                       THEN /\ pc' = "returned"
                            /\ all_results' = <<>>
                            /\ UNCHANGED total_batches
                       ELSE /\ pc' = "loop"   \* range(total_batches) is not empty
                            /\ total_batches' = TotalBatches(Len(kid.ids), batch_size)
                            /\ UNCHANGED all_results
    /\ UNCHANGED <<keywords, batch_size, results>>

\* Lines 124-135 and get_keyword_data_batch up to its GET (line 85).
BatchRequest ==
    /\ pc = "loop"
    /\ log' = Append(log, Request("data", CurrentBatch(keyword_ids.ids, batch_num, batch_size)))
    /\ in_flight' = in_flight \cup {Len(log) + 1}
    /\ response' = NoResponse
    /\ pc' = "batch"
    /\ UNCHANGED <<keywords, batch_size, keyword_ids, total_batches, batch_num,
                   all_results, errors, results>>

\* The batch's GET returns: get_keyword_data_batch lines 86-103, then lines
\* 136-144 of the loop.
BatchResponse ==
    /\ pc = "batch"
    /\ \E resp \in BatchResponses :
         LET batch == get_keyword_data_batch(resp) IN
         /\ response' = resp
         /\ log' = [log EXCEPT ![Len(log)] = Answered(@, resp)]
         /\ in_flight' = in_flight \ {Len(log)}
         /\ errors' = Report(errors, batch.error)
         /\ all_results' = Extend(all_results, batch)
         /\ batch_num' = NextBatchNum(batch_num, batch)
         /\ pc' = IF LoopContinues(NextBatchNum(batch_num, batch), total_batches, batch)
                  THEN "loop"
                  ELSE "returned"
    /\ UNCHANGED <<keywords, batch_size, keyword_ids, total_batches, results>>

\* main, lines 240-242: the table of what process_keywords_in_batches
\* returned, which is a list on every path (the None test never fails).
ResultsTable(results_data, original_keywords) ==
    LET r == process_results(results_data, original_keywords)
    IN [raised |-> r.raised, table |-> ~r.raised, rows |-> r.rows]

ProcessResults ==
    /\ pc = "returned"
    /\ LET t == ResultsTable(all_results, keywords) IN
       /\ results' = [table |-> t.table, rows |-> t.rows]
       /\ pc' = IF t.raised THEN "crashed" ELSE "done"
       /\ errors' = IF t.raised THEN Append(errors, "exception") ELSE errors
    /\ UNCHANGED <<keywords, batch_size, response, keyword_ids, total_batches,
                   batch_num, all_results, log, in_flight>>

Next == Click \/ LookupResponse \/ BatchRequest \/ BatchResponse \/ ProcessResults

Spec == Init /\ [][Next]_vars

\* A request that is issued is answered or fails (requests.get returns or
\* raises), and the loop's own steps run: process_keywords_in_batches, once
\* called, is not stopped from outside.
LiveSpec ==
    Spec /\ WF_vars(LookupResponse) /\ WF_vars(BatchRequest) /\ WF_vars(BatchResponse)

\* ------------------------------------------- the functions on their own

\* Items process_results is applied to: the volume in every place the probe
\* looks at, values of every JSON type, keywords in either case.
NoVolume(kw) == VolumeItem(kw, NoSearchData, JMissing, JMissing, JMissing)

DataItems ==
    { rowSEO5, rowAb7,
      SdOnly(kwSeo, JInt(6), JMissing, JMissing),
      NoVolume(kwSEO),
      SdOnly(kwSEO, JStr(<<"x">>), JInt(7), JMissing),
      VolumeItem(kwSEO, SearchData("dict", JMissing, JInt(7), JInt(8)), JInt(9), JMissing, JMissing),
      VolumeItem(kwSEO, SearchData("dict", JNull, JNull, JInt(8)), JInt(9), JMissing, JMissing),
      VolumeItem(kwSEO, SearchData("null", JMissing, JMissing, JMissing), JInt(9), JInt(10), JMissing),
      VolumeItem(kwSEO, NoSearchData, JMissing, JInt(10), JInt(11)),
      VolumeItem(kwSEO, NoSearchData, JNull, JNull, JInt(11)),
      SdOnly(kwSEO, JInt(0 - 3), JMissing, JMissing),
      SdOnly(kwSEO, JInt(0), JMissing, JMissing),
      SdOnly(kwSEO, JFloat(5, 2), JMissing, JMissing),
      SdOnly(kwSEO, JStr(<<"1", "2">>), JMissing, JMissing),
      SdOnly(kwSEO, JStr(<<"2", ".", "5">>), JMissing, JMissing),
      SdOnly(kwSEO, JList, JMissing, JMissing),
      SdOnly(kwSEO, JInf, JMissing, JMissing),
      Item(JMissing, 0, SearchData("dict", JInt(5), JMissing, JMissing), JMissing, JMissing, JMissing),
      Item(JNull, 0, SearchData("dict", JInt(5), JMissing, JMissing), JMissing, JMissing, JMissing),
      NonDictItem }

\* Items get_keyword_ids is applied to: every spelling with an absent (or
\* zero) id and with a usable one, an item without keyword, one whose keyword
\* is null, and an element that is no object.
LookupItems ==
    { LookupItem(JStr(kwSeo), 1), LookupItem(JStr(kwSEO), 2), LookupItem(JStr(kwSEO), 0),
      LookupItem(JStr(kwAb), 1), LookupItem(JStr(kwAb), 2),
      LookupItem(JMissing, 1), LookupItem(JNull, 1), NonDictItem }

LookupResponsesFn ==
    {Response(st, JsonObject) : st \in Failures \cup {"ok"}}
        \cup {Response("ok", JsonList(rows)) : rows \in SeqsUpTo(LookupItems, MaxLookupRows)}

InitFn ==
    /\ keywords \in SeqsUpTo(ReqKeywords, MaxKeywords)
    /\ batch_size = 1
    /\ keyword_ids = NoIds
    /\ total_batches = 0
    /\ batch_num = 0
    /\ log = <<>>
    /\ in_flight = {}
    /\ errors = <<>>
    /\ results = NoTable
    /\ \/ /\ pc = "call_get_keyword_ids"
          /\ response \in LookupResponsesFn
          /\ all_results = <<>>
       \/ /\ pc = "call_process_results"
          /\ response = NoResponse
          /\ all_results \in SeqsUpTo(DataItems, MaxItems)

\* get_keyword_ids(api_key, campaign_id, keywords), the GET answered by response
CallGetKeywordIds ==
    /\ pc = "call_get_keyword_ids"
    /\ LET r == get_keyword_ids(response, keywords) IN
       /\ keyword_ids' = [none |-> r.none, ids |-> r.ids]
       /\ errors' = Report(errors, r.error)
       /\ pc' = IF r.outcome = "raise" THEN "raised" ELSE "ids_returned"
    /\ UNCHANGED <<keywords, batch_size, response, total_batches, batch_num,
                   all_results, log, in_flight, results>>

\* process_results(all_results, keywords)
CallProcessResults ==
    /\ pc = "call_process_results"
    /\ LET r == process_results(all_results, keywords) IN
       /\ results' = [table |-> ~r.raised, rows |-> r.rows]
       /\ pc' = IF r.raised THEN "raised" ELSE "results_returned"
    /\ UNCHANGED <<keywords, batch_size, response, keyword_ids, total_batches,
                   batch_num, all_results, log, in_flight, errors>>

NextFn == CallGetKeywordIds \/ CallProcessResults

SpecFn == InitFn /\ [][NextFn]_vars

\* ================================================================ claims

\* Equality of two keyword strings after lower-casing.
CaseEq(a, b) == Lower(a) = Lower(b)

\* The item is a JSON object whose keyword is the string k, up to case.
ItemIs(item, k) == item.dict /\ item.keyword.t = "str" /\ CaseEq(item.keyword.s, k)

Finished == pc \in {"returned", "done"}

DataRequests == SelectSeq(log, LAMBDA q : q.kind = "data")

Saw(status) == \E i \in DOMAIN log : log[i].status = status

\* ------------------------------------------------------------------- C1
\* C1: if the API answers 401 to any request of the invocation, the
\* invocation yields no result records: main builds no table, neither of
\* defaulted records nor of the records of batches that succeeded.
C1_AuthFailureNoRecords == Saw("401") => (~results.table /\ results.rows = <<>>)

\* ------------------------------------------------------------------- C5
\* C5: after a request failed with a transport error or an HTTP error that
\* is neither 401 nor 404, no further request is issued: the failed request
\* is the last one of the log.
C5_ErrorAbortsFetch ==
    \A i \in DOMAIN log : log[i].status \in {"network", "http_error"} => i = Len(log)

\* ------------------------------------------------------------------- C3
\* C3: a requested keyword that equals, up to case, the keyword of no item
\* of any data answer has a record, and every record of it has
\* search_volume 0; so when the lookup fails or resolves no id (all_results
\* is empty) every record has search_volume 0.
C3_UnmatchedIsZero ==
    results.table =>
        \A i \in DOMAIN keywords :
            (\A j \in DOMAIN all_results : ~ItemIs(all_results[j], keywords[i])) =>
                /\ \E r \in DOMAIN results.rows : CaseEq(results.rows[r].keyword, keywords[i])
                /\ \A r \in DOMAIN results.rows :
                       CaseEq(results.rows[r].keyword, keywords[i]) =>
                           results.rows[r].search_volume = 0

\* A table with a requested keyword no item matched next to one an item gave
\* a volume to.
C3_Witness ==
    /\ pc = "done"
    /\ all_results # <<>>
    /\ \E i \in DOMAIN keywords : \A j \in DOMAIN all_results : ~ItemIs(all_results[j], keywords[i])
    /\ \E r \in DOMAIN results.rows : results.rows[r].search_volume > 0

\* ------------------------------------------------------------------- C9
\* n ids in batches of bs: the least k with k * bs >= n
CeilDiv(n, bs) == CHOOSE k \in 0..n : k * bs >= n /\ (k = 0 \/ (k - 1) * bs < n)

C10_GatedByLookup ==
    /\ \A i \in DOMAIN log : (log[i].kind = "ids") <=> (i = 1)
    /\ Cardinality(in_flight) <= 1
    /\ \A i \in in_flight : i = Len(log) /\ log[i].status = "pending"
    /\ DataRequests # <<>> =>
           /\ log[1].status = "ok"
           /\ ~keyword_ids.none
           /\ \E i \in DOMAIN keyword_ids.ids : keyword_ids.ids[i] # 0
    /\ (Finished /\ (log[1].status # "ok" \/ keyword_ids.ids = <<>>)) =>
           /\ all_results = <<>>
           /\ DataRequests = <<>>

\* The lookup failed and the function returned [] after that one request.
C10_Witness ==
    /\ pc = "returned"
    /\ log[1].status \in Failures
    /\ Len(log) = 1
    /\ all_results = <<>>

\* ------------------------------------------------------------------- C6
\* A data answer that is a JSON list shorter than batch_size.
ShortPage(q) == q.kind = "data" /\ q.list /\ q.rows < batch_size

\* C6 as stated: once an answer has fewer rows than batch_size, no further
\* request is issued: a short page is the last request of the log.
C6_ShortPageStops == \A i \in DOMAIN log : ShortPage(log[i]) => i = Len(log)

\* C6 as amended: the loop goes on after an answer exactly when batches of
\* keyword_ids remain, whatever the answer's length; and
\* process_keywords_in_batches, once called, comes to its end.
C6_LoopFinishes ==
    /\ [][(pc = "batch" /\ pc' # "batch") =>
              ((pc' = "loop") <=> (Len(DataRequests) < total_batches))]_vars
    /\ (pc = "lookup") ~> (pc \in {"returned", "done", "crashed"})

\* A short page was followed by another request, and the invocation ended.
C6_Witness ==
    /\ pc = "done"
    /\ \E i \in DOMAIN log : ShortPage(log[i]) /\ i < Len(log)

\* ------------------------------------------------------------------- C2
\* C2 as stated: as many records as requested keywords, and every requested
\* spelling is the keyword of a record.
C2_OnePerRequested ==
    pc = "results_returned" =>
        /\ Len(results.rows) = Len(keywords)
        /\ \A i \in DOMAIN keywords :
               \E r \in DOMAIN results.rows : results.rows[r].keyword = keywords[i]

FirstIndex(k) == CHOOSE i \in DOMAIN keywords :
    CaseEq(keywords[i], k) /\ \A h \in 1..(i - 1) : ~CaseEq(keywords[h], k)

\* C2 as amended: one record per requested keyword up to case: as many
\* records as distinct lower-cased keywords, exactly one record for every
\* requested keyword up to case, carrying the last requested spelling, in
\* the order of the first occurrences.
C2_OnePerDistinctKey ==
    pc = "results_returned" =>
        LET rows == results.rows IN
        /\ Len(rows) = Cardinality({Lower(keywords[i]) : i \in DOMAIN keywords})
        /\ \A i \in DOMAIN keywords :
               Cardinality({r \in DOMAIN rows : CaseEq(rows[r].keyword, keywords[i])}) = 1
        /\ \A r \in DOMAIN rows :
               \E i \in DOMAIN keywords :
                   /\ rows[r].keyword = keywords[i]
                   /\ \A h \in DOMAIN keywords : h > i => ~CaseEq(keywords[h], keywords[i])
        /\ \A r1, r2 \in DOMAIN rows :
               r1 < r2 => FirstIndex(rows[r1].keyword) < FirstIndex(rows[r2].keyword)

\* Two spellings of one keyword were requested and one record came back.
C2_Witness ==
    /\ pc = "results_returned"
    /\ keywords = <<kwSeo, kwSEO>>
    /\ Len(results.rows) = 1
    /\ results.rows[1].keyword = kwSEO

\* ------------------------------------------------------------------- C7
\* C7: every record's search_volume is an integer >= 0.
C7_VolumeNonNegative ==
    \A r \in DOMAIN results.rows : results.rows[r].search_volume \in Nat

\* ------------------------------------------------------------------- C8
\* The six places of a volume, in the order of the claim; search_data's are
\* null when search_data is no object.
VolumeFields(item) ==
    LET sd == item.search_data
        in_sd(v) == IF sd.t = "dict" THEN v ELSE JNull
    IN <<in_sd(sd.monthly_searches), in_sd(sd.search_volume), in_sd(sd.volume),
         item.monthly_searches, item.search_volume, item.volume>>

FirstNonNull(item) ==
    LET f == VolumeFields(item)
        present == {i \in DOMAIN f : ~IsNone(f[i])}
    IN IF present = {} THEN JNull
       ELSE f[CHOOSE i \in present : \A h \in present : i <= h]

Coercible(v) == PyInt(v).r = "ok"

MatchedItems(k) == {j \in DOMAIN all_results : ItemIs(all_results[j], k)}

\* C8 as stated: the last matched item gives its first non-null volume,
\* coerced; a matched item whose first non-null volume is missing or not
\* coercible makes the keyword's search_volume 0, whatever came before.
C8_NotCoercibleIsZero ==
    pc = "results_returned" =>
        \A r \in DOMAIN results.rows :
            \A j \in MatchedItems(results.rows[r].keyword) :
                LET v == FirstNonNull(all_results[j]) IN
                IF Coercible(v)
                THEN j = SetMax(MatchedItems(results.rows[r].keyword)) =>
                         results.rows[r].search_volume = PyInt(v).v
                ELSE results.rows[r].search_volume = 0

\* C8 as amended: a keyword's search_volume is the coerced first non-null
\* volume of the last matched item that has a coercible one, and 0 when no
\* matched item has: an item without a coercible volume changes nothing.
C8_FirstNonNullOfLastCoercible ==
    pc = "results_returned" =>
        \A r \in DOMAIN results.rows :
            LET usable == {j \in MatchedItems(results.rows[r].keyword) :
                               Coercible(FirstNonNull(all_results[j]))}
            IN results.rows[r].search_volume =
                   IF usable = {} THEN 0
                   ELSE PyInt(FirstNonNull(all_results[SetMax(usable)])).v

\* A volume found in search_data.search_volume, before three later places,
\* survived a later item whose volume is no number.
C8_Witness ==
    /\ pc = "results_returned"
    /\ Len(all_results) = 2
    /\ all_results[1] =
           VolumeItem(kwSEO, SearchData("dict", JMissing, JInt(7), JInt(8)),
                      JInt(9), JMissing, JMissing)
    /\ all_results[2] = SdOnly(kwSEO, JStr(<<"x">>), JInt(7), JMissing)
    /\ \E r \in DOMAIN results.rows : results.rows[r].search_volume = 7

\* ------------------------------------------------------------------- C4
LookupRows == IF response.json.t = "list" THEN response.json.rows ELSE <<>>

ExpectedId(k) ==
    LET usable == {i \in DOMAIN LookupRows :
                       ItemIs(LookupRows[i], k) /\ LookupRows[i].id # 0}
    IN IF usable = {} THEN <<>> ELSE <<LookupRows[SetMax(usable)].id>>

====
